---- MODULE Spec2Model ----
(***************************************************************************)
(* The write-ahead journal of paritydb (src/paritydb/src/journal.rs).      *)
(*                                                                         *)
(* Bytes are naturals.  A path is the sequence of the ASCII codes of its   *)
(* characters, a file is the sequence of its bytes, the file system is a   *)
(* function from the paths of the existing files to their contents.        *)
(***************************************************************************)
EXTENDS Integers, Sequences, FiniteSets, TLC

VARIABLES
    files,      \* the file system: path -> bytes of the file
    journal,    \* the Journal value the program holds, or NoJournal
    pushed,     \* the paths that the pushes on the Journal value held have targeted
    drained,    \* the eras handed out by drain_front that the caller still holds
    era,        \* the JournalEra value held by a direct user of the era layer
    faults,     \* I/O failures the environment has injected so far
    result,     \* what the last call returned
    writers     \* the Journal values of two writers on JournalDir, each with
                \* the position of its push

vars == <<files, journal, pushed, drained, era, faults, result, writers>>

-----------------------------------------------------------------------------
(* Bounds of the model *)

\* longest transaction handed to JournalEra::create by a direct caller
MaxOps == 4
\* longest transaction of a segment file that is corrupted afterwards
MaxCorruptOps == 2
\* push is not called once next_era_index has reached this value
MaxIndex == 3
\* number of I/O failures the environment injects in one behaviour
MaxFaults == 1
\* a writer of two on one directory does not push once its next_era_index has
\* reached this value
MaxWriterIndex == 2

Keys == {11, 12}
Values == {21, 22}
\* the keys that the transactions pushed on the journal mention
PushKeys == {11}

-----------------------------------------------------------------------------
(* Results *)

NoValue == <<>>
Ok(v) == [ok |-> TRUE, val |-> v, err |-> <<"none">>]
Err(e) == [ok |-> FALSE, val |-> NoValue, err |-> e]

-----------------------------------------------------------------------------
(* Transaction, Operation, OperationsIterator: transaction.rs              *)

Insert(key, value) == <<"Insert", key, value>>
Delete(key) == <<"Delete", key>>
Operations == {Insert(k, v) : k \in Keys, v \in Values} \cup {Delete(k) : k \in Keys}

INSERT_TAG == 0
DELETE_TAG == 1

\* one operation record: a tag byte, the key, and for an insert the value
EncodeOperation(o) ==
    IF o[1] = "Insert" THEN <<INSERT_TAG, o[2], o[3]>> ELSE <<DELETE_TAG, o[2]>>

\* Transaction::raw: the concatenated operation records
RECURSIVE raw(_)
raw(transaction) ==
    IF transaction = <<>> THEN <<>>
    ELSE EncodeOperation(Head(transaction)) \o raw(Tail(transaction))

\* OperationsIterator: the operations of a payload, in file order
RECURSIVE OperationsIterator(_)
OperationsIterator(memory) ==
    IF memory = <<>> THEN <<>>
    ELSE IF memory[1] = INSERT_TAG /\ Len(memory) >= 3
         THEN <<Insert(memory[2], memory[3])>>
              \o OperationsIterator(SubSeq(memory, 4, Len(memory)))
    ELSE IF memory[1] = DELETE_TAG /\ Len(memory) >= 2
         THEN <<Delete(memory[2])>>
              \o OperationsIterator(SubSeq(memory, 3, Len(memory)))
    ELSE <<>>

-----------------------------------------------------------------------------
(* The segment layer: JournalEra                                           *)

CHECKSUM_SIZE == 32

\* tiny_keccak::sha3_256, idealised as collision free: a digest of
\* CHECKSUM_SIZE bytes that differs whenever the hashed bytes differ (for
\* inputs of at most CHECKSUM_SIZE bytes, the only ones the model hashes)
sha3_256(data) ==
    [i \in 1..CHECKSUM_SIZE |-> IF i <= Len(data) THEN data[i] + 1 ELSE 0]

JournalOperationInsert(value) == <<"Insert", value>>
JournalOperationDelete == <<"Delete">>

\* an insert that keeps the value stored for an equal key
InsertIfVacant(map, key, value) ==
    [k \in DOMAIN map \cup {key} |-> IF k \in DOMAIN map THEN map[k] ELSE value]

\* HashMap::insert: the new value replaces the one stored for an equal key
HashMapInsert(map, key, value) ==
    [k \in DOMAIN map \cup {key} |-> IF k = key THEN value ELSE map[k]]

\* one step of the collect of cache_memory
CacheEntry(map, o) ==
    IF o[1] = "Insert"
    THEN HashMapInsert(map, o[2], JournalOperationInsert(o[3]))
    ELSE HashMapInsert(map, o[2], JournalOperationDelete)

RECURSIVE Collect(_, _)
Collect(operations, map) ==
    IF operations = <<>> THEN map
    ELSE Collect(Tail(operations), CacheEntry(map, Head(operations)))

cache_memory(memory) == Collect(OperationsIterator(memory), <<>>)

\* an open that maps the file and never compares the digests
EraOpenUnchecked(fs, file) ==
    IF file \notin DOMAIN fs THEN Err(<<"Io", "NotFound">>)
    ELSE IF Len(fs[file]) = 0 THEN Err(<<"Io", "InvalidInput">>)
    ELSE IF Len(fs[file]) < CHECKSUM_SIZE THEN Err(<<"Panic">>)
    ELSE Ok([file |-> file, mmap |-> fs[file],
             cache |-> cache_memory(SubSeq(fs[file], CHECKSUM_SIZE + 1,
                                           Len(fs[file])))])

\* JournalEra::open
EraOpen(fs, file) ==
    IF file \notin DOMAIN fs THEN Err(<<"Io", "NotFound">>)
    ELSE IF Len(fs[file]) = 0 THEN Err(<<"Io", "InvalidInput">>)
    ELSE IF Len(fs[file]) < CHECKSUM_SIZE THEN Err(<<"Panic">>)
    ELSE LET mmap == fs[file]
             checksum == SubSeq(mmap, 1, CHECKSUM_SIZE)
             data == SubSeq(mmap, CHECKSUM_SIZE + 1, Len(mmap))
             hash == sha3_256(data)
         IN  IF hash # checksum
             THEN Err(<<"CorruptedJournal", file, hash, checksum>>)
             ELSE Ok([file |-> file, mmap |-> mmap, cache |-> cache_memory(data)])

\* a create that opens its file with create(true).truncate(true)
EraCreateTruncating(fs, file_path, transaction, fault, cut) ==
    LET written == [p \in DOMAIN fs \cup {file_path} |->
                        IF p = file_path
                        THEN sha3_256(raw(transaction)) \o raw(transaction)
                        ELSE fs[p]]
    IN  [fs |-> written, res |-> EraOpen(written, file_path)]

\* JournalEra::create.  fault names the step at which the environment makes
\* the I/O fail ("none": no failure); cut is the number of payload bytes that
\* reached the file when the payload write fails.
EraCreate(fs, file_path, transaction, fault, cut) ==
    LET hash == sha3_256(raw(transaction))
        with(bytes) == [p \in DOMAIN fs \cup {file_path} |->
                            IF p = file_path THEN bytes ELSE fs[p]]
    IN  IF file_path \in DOMAIN fs
        THEN [fs |-> fs, res |-> Err(<<"Io", "AlreadyExists">>)]
        ELSE IF fault = "create"
        THEN [fs |-> fs, res |-> Err(<<"Io", "Other">>)]
        ELSE IF fault = "write_hash"
        THEN [fs |-> with(<<>>), res |-> Err(<<"Io", "Other">>)]
        ELSE IF fault = "write_data"
        THEN [fs |-> with(hash \o SubSeq(raw(transaction), 1, cut)),
              res |-> Err(<<"Io", "Other">>)]
        ELSE LET written == with(hash \o raw(transaction))
             IN  [fs |-> written, res |-> EraOpen(written, file_path)]

\* an open of the file with create(true).truncate(true): an existing file is
\* emptied
CreateTruncate(fs, file_path) ==
    [fs |-> [p \in DOMAIN fs \cup {file_path} |->
                IF p = file_path THEN <<>> ELSE fs[p]],
     res |-> Ok(NoValue)]

\* OpenOptions::new().write(true).create_new(true).open(file_path): the file
\* is created, empty, unless something exists at the path
CreateNew(fs, file_path) ==
    IF file_path \in DOMAIN fs
    THEN [fs |-> fs, res |-> Err(<<"Io", "AlreadyExists">>)]
    ELSE [fs |-> [p \in DOMAIN fs \cup {file_path} |->
                     IF p = file_path THEN <<>> ELSE fs[p]],
          res |-> Ok(NoValue)]

\* file.write_all(bytes) through a handle whose cursor is at pos: the bytes
\* take the places pos+1.. of the file, which grows as needed (a hole reads
\* as zeros)
WriteAll(fs, file_path, pos, bytes) ==
    LET old == fs[file_path]
        length == IF Len(old) > pos + Len(bytes) THEN Len(old) ELSE pos + Len(bytes)
    IN  [fs EXCEPT ![file_path] =
            [i \in 1..length |->
                IF i > pos /\ i <= pos + Len(bytes) THEN bytes[i - pos]
                ELSE IF i <= Len(old) THEN old[i] ELSE 0]]

\* JournalEra::get
EraGet(e, key) ==
    IF key \notin DOMAIN e.cache THEN <<"None">>
    ELSE IF e.cache[key][1] = "Insert"
         THEN <<"Some", JournalOperationInsert(e.cache[key][2])>>
         ELSE <<"Some", JournalOperationDelete>>

\* Ord of two operations: by key
OperationLess(a, b) == a[2] < b[2]

\* a set insert that keeps the element stored for an equal key
SetInsert(set, o) ==
    IF \E n \in 1..Len(set) : ~OperationLess(set[n], o) /\ ~OperationLess(o, set[n])
    THEN set
    ELSE SelectSeq(set, LAMBDA x : OperationLess(x, o)) \o <<o>>
         \o SelectSeq(set, LAMBDA x : OperationLess(o, x))

\* BTreeSet::replace on the set's elements in their order: o takes the place
\* of the element that compares equal to it
SetReplace(set, o) ==
    SelectSeq(set, LAMBDA x : OperationLess(x, o)) \o <<o>>
    \o SelectSeq(set, LAMBDA x : OperationLess(o, x))

\* the loop of JournalEra::iter over the operations of the payload
RECURSIVE IterFrom(_, _)
IterFrom(operations, set) ==
    IF operations = <<>> THEN set
    ELSE IterFrom(Tail(operations), SetReplace(set, Head(operations)))

\* JournalEra::iter: what the returned iterator yields
EraIter(e) ==
    IterFrom(OperationsIterator(SubSeq(e.mmap, CHECKSUM_SIZE + 1, Len(e.mmap))),
             <<>>)

\* JournalEra::delete
EraDelete(fs, e) ==
    IF e.file \in DOMAIN fs
    THEN [fs |-> [p \in DOMAIN fs \ {e.file} |-> fs[p]], res |-> Ok(NoValue)]
    ELSE [fs |-> fs, res |-> Err(<<"Io", "NotFound">>)]

-----------------------------------------------------------------------------
(* mod dir: naming and listing of the segment files                        *)

\* ".era"
ERA_EXTENSION == <<46, 101, 114, 97>>
\* "/"
Separator == <<47>>
\* "/j", the journal directory, and "/x", a path at which nothing exists
JournalDir == <<47, 106>>
MissingDir == <<47, 120>>
\* "/j/file", where the era layer's direct user writes its segment
TestFile == <<47, 106, 47, 102, 105, 108, 101>>

IsDir(dir) == dir = JournalDir

EndsWith(s, suffix) ==
    /\ Len(s) >= Len(suffix)
    /\ SubSeq(s, Len(s) - Len(suffix) + 1, Len(s)) = suffix

StartsWith(s, prefix) ==
    Len(s) >= Len(prefix) /\ SubSeq(s, 1, Len(prefix)) = prefix

\* the name of a file inside dir: what follows "dir/"
FileName(dir, path) == SubSeq(path, Len(dir) + 2, Len(path))

\* read_dir(dir): the paths of the entries of dir
ReadDir(fs, dir) ==
    {p \in DOMAIN fs :
        /\ StartsWith(p, dir \o Separator)
        /\ \A i \in 1..Len(FileName(dir, p)) : FileName(dir, p)[i] # Separator[1]}

\* u64's Display: the decimal digits of n
RECURSIVE FormatU64(_)
FormatU64(n) ==
    IF n < 10 THEN <<48 + n>> ELSE FormatU64(n \div 10) \o <<48 + (n % 10)>>

\* dir::next_era_filename
next_era_filename(dir, next_index) ==
    dir \o Separator \o FormatU64(next_index) \o ERA_EXTENSION

IsDigit(c) == 48 <= c /\ c <= 57

RECURSIVE DigitsValue(_, _)
DigitsValue(s, acc) ==
    IF s = <<>> THEN acc ELSE DigitsValue(Tail(s), acc * 10 + (Head(s) - 48))

\* str::parse::<u64>: an optional "+" and then decimal digits only (the model
\* stays far below the values at which the parse overflows)
ParseU64(s) ==
    IF s = <<>> THEN Err(<<"ParseInt", "Empty">>)
    ELSE LET digits == IF s[1] = 43 /\ Len(s) > 1 THEN Tail(s) ELSE s
         IN  IF \A i \in 1..Len(digits) : IsDigit(digits[i])
             THEN Ok(DigitsValue(digits, 0))
             ELSE Err(<<"ParseInt", "InvalidDigit">>)

\* dir::era_index: the displayed path without its last four bytes, parsed
era_index(path) ==
    LET parsed == ParseU64(SubSeq(path, 1, Len(path) - Len(ERA_EXTENSION)))
    IN  IF parsed.ok THEN Ok(1 + parsed.val) ELSE parsed

\* Ord of two paths of one directory: byte-wise lexicographic
PathLess(a, b) ==
    \E i \in 1..Len(b) :
        /\ \A k \in 1..(i - 1) : k <= Len(a) /\ a[k] = b[k]
        /\ (i > Len(a) \/ (i <= Len(a) /\ a[i] < b[i]))

\* Vec::sort
RECURSIVE SortPaths(_)
SortPaths(S) ==
    IF S = {} THEN <<>>
    ELSE LET least == CHOOSE m \in S : \A o \in S \ {m} : PathLess(m, o)
         IN  <<least>> \o SortPaths(S \ {least})

\* the loop of dir::era_files over the sorted paths, from position i on, with
\* last the index seen before (<<>> for None)
RECURSIVE CheckRun(_, _, _)
CheckRun(paths, i, last) ==
    IF i > Len(paths) THEN Ok(paths)
    ELSE LET idx == era_index(paths[i])
         IN  IF ~idx.ok THEN idx
             ELSE IF last = <<>> \/ last = <<idx.val - 1>>
                  THEN CheckRun(paths, i + 1, <<idx.val>>)
                  ELSE Err(<<"JournalEraMissing", idx.val>>)

\* dir::era_files
era_files(fs, dir) ==
    IF ~IsDir(dir) THEN Err(<<"InvalidJournalLocation", dir>>)
    ELSE CheckRun(SortPaths({p \in ReadDir(fs, dir) :
                                EndsWith(FileName(dir, p), ERA_EXTENSION)}),
                  1, <<>>)

\* dir::next_era_index
next_era_index(paths) ==
    IF paths = <<>> THEN Ok(0) ELSE era_index(paths[Len(paths)])

-----------------------------------------------------------------------------
(* Journal                                                                 *)

NoJournal == [dir |-> <<>>, eras |-> <<>>, next_era_index |-> -1]

\* the collect of Journal::open: the eras of the paths from position i on,
\* or the first error
RECURSIVE OpenEras(_, _, _, _)
OpenEras(fs, paths, i, eras) ==
    IF i > Len(paths) THEN Ok(eras)
    ELSE LET e == EraOpen(fs, paths[i])
         IN  IF e.ok THEN OpenEras(fs, paths, i + 1, Append(eras, e.val)) ELSE e

\* Journal::open
JournalOpen(fs, jdir) ==
    LET listed == era_files(fs, jdir)
    IN  IF ~listed.ok THEN listed
        ELSE LET next == next_era_index(listed.val)
             IN  IF ~next.ok THEN next
                 ELSE LET eras == OpenEras(fs, listed.val, 1, <<>>)
                      IN  IF ~eras.ok THEN eras
                          ELSE Ok([dir |-> jdir, eras |-> eras.val,
                                   next_era_index |-> next.val])

\* a push that names its file after the number of eras held
PushAtLen(j, fs, transaction, fault, cut) ==
    LET new_path == next_era_filename(j.dir, Len(j.eras))
        created == EraCreate(fs, new_path, transaction, fault, cut)
    IN  [journal |-> [j EXCEPT !.next_era_index = @ + 1,
                               !.eras = IF created.res.ok
                                        THEN Append(@, created.res.val) ELSE @],
         fs |-> created.fs,
         res |-> IF created.res.ok THEN Ok(NoValue) ELSE created.res,
         path |-> new_path]

\* a push that appends the era of its transaction before it creates the file
PushAppendsFirst(j, fs, transaction, fault, cut) ==
    LET new_path == next_era_filename(j.dir, j.next_era_index)
        new_era == [file |-> new_path,
                    mmap |-> sha3_256(raw(transaction)) \o raw(transaction),
                    cache |-> cache_memory(raw(transaction))]
        created == EraCreate(fs, new_path, transaction, fault, cut)
    IN  [journal |-> [j EXCEPT !.next_era_index = @ + 1,
                               !.eras = Append(@, new_era)],
         fs |-> created.fs,
         res |-> IF created.res.ok THEN Ok(NoValue) ELSE created.res,
         path |-> new_path]

\* Journal::push: the journal and the file system after the call, and what
\* the call returned
JournalPush(j, fs, transaction, fault, cut) ==
    LET new_path == next_era_filename(j.dir, j.next_era_index)
        created == EraCreate(fs, new_path, transaction, fault, cut)
    IN  [journal |-> [j EXCEPT !.next_era_index = @ + 1,
                               !.eras = IF created.res.ok
                                        THEN Append(@, created.res.val) ELSE @],
         fs |-> created.fs,
         res |-> IF created.res.ok THEN Ok(NoValue) ELSE created.res,
         path |-> new_path]

\* a drain that takes the newest eras
DrainKeepsOldest(j, elems) ==
    IF elems > Len(j.eras)
    THEN [journal |-> j, yielded |-> <<>>, res |-> Err(<<"Panic">>)]
    ELSE [journal |-> [j EXCEPT !.eras = SubSeq(@, 1, Len(@) - elems)],
          yielded |-> SubSeq(j.eras, Len(j.eras) - elems + 1, Len(j.eras)),
          res |-> Ok(NoValue)]

\* a drain that takes the eras there are when elems exceeds their number
DrainClamped(j, elems) ==
    LET n == IF elems > Len(j.eras) THEN Len(j.eras) ELSE elems
    IN  [journal |-> [j EXCEPT !.eras = SubSeq(@, n + 1, Len(@))],
         yielded |-> SubSeq(j.eras, 1, n),
         res |-> Ok(NoValue)]

\* Journal::drain_front: VecDeque::drain(..elems) panics, before it removes
\* anything, when elems exceeds the length
JournalDrainFront(j, elems) ==
    IF elems > Len(j.eras)
    THEN [journal |-> j, yielded |-> <<>>, res |-> Err(<<"Panic">>)]
    ELSE [journal |-> [j EXCEPT !.eras = SubSeq(@, elems + 1, Len(@))],
          yielded |-> SubSeq(j.eras, 1, elems),
          res |-> Ok(NoValue)]

\* Journal::len
JournalLen(j) == Len(j.eras)

\* a lookup that lets the oldest era mentioning the key decide
GetOldestFirst(j, key, i) ==
    IF \E n \in 1..Len(j.eras) : EraGet(j.eras[n], key) # <<"None">>
    THEN LET n == CHOOSE m \in 1..Len(j.eras) :
                     /\ EraGet(j.eras[m], key) # <<"None">>
                     /\ \A l \in 1..(m - 1) : EraGet(j.eras[l], key) = <<"None">>
             operation == EraGet(j.eras[n], key)[2]
         IN  IF operation[1] = "Insert" THEN <<"Some", operation[2]>> ELSE <<"None">>
    ELSE <<"None">>

\* the loop of Journal::get over the eras in reverse, from position i down
RECURSIVE GetFrom(_, _, _)
GetFrom(j, key, i) ==
    IF i = 0 THEN <<"None">>
    ELSE LET found == EraGet(j.eras[i], key)
         IN  IF found[1] = "Some"
             THEN IF found[2][1] = "Insert" THEN <<"Some", found[2][2]>>
                  ELSE <<"None">>
             ELSE GetFrom(j, key, i - 1)

\* Journal::get
JournalGet(j, key) == GetFrom(j, key, Len(j.eras))

-----------------------------------------------------------------------------
(* The calls a program makes on the journal of JournalDir                  *)

NoEra == [file |-> <<>>, mmap |-> <<>>, cache |-> <<>>]

Returned(op, arg, res, ret) ==
    [op |-> op, arg |-> arg, ok |-> res.ok, err |-> res.err, ret |-> ret]

RECURSIVE SeqsUpTo(_, _)
SeqsUpTo(S, n) ==
    IF n = 0 THEN {<<>>}
    ELSE LET shorter == SeqsUpTo(S, n - 1)
         IN  shorter \cup {Append(t, o) : t \in shorter, o \in S}

\* the transactions a caller builds with Transaction::insert and ::delete
Transactions(n) == SeqsUpTo(Operations, n)
\* the transactions handed to JournalEra::create by its direct user
CreateTransactions == Transactions(MaxOps)
\* those of them whose segment file is corrupted afterwards
CorruptTransactions == Transactions(MaxCorruptOps)
\* those of them tried on a path at which a file exists already (create then
\* fails before it writes any of the transaction's bytes)
ShortTransactions == Transactions(1)
\* the transactions handed to Journal::push: the empty one and those of one
\* operation on a push key (push hands its transaction to JournalEra::create
\* as it is; longer ones are CreateTransactions)
PushTransactions ==
    {<<>>} \cup {<<o>> : o \in {op \in Operations : op[2] \in PushKeys}}
\* the payload bytes that reached the file when the write of the payload fails
PayloadCuts == {0}

\* the two writers on JournalDir
Writers == {1, 2}

\* a writer that holds no Journal yet.  pc is the step of push it is at, path
\* and tx the file and the transaction of its push, pos the cursor of its
\* file handle, res what its last call returned, made the transaction of
\* each file its pushes created.
NoWriter ==
    [journal |-> NoJournal, pc |-> "closed", path |-> <<>>, tx |-> <<>>,
     pos |-> 0, res |-> Ok(NoValue), made |-> <<>>]

Init ==
    /\ files = <<>>
    /\ journal = NoJournal
    /\ pushed = <<>>
    /\ drained = <<>>
    /\ era = NoEra
    /\ faults = 0
    /\ result = Returned("init", <<>>, Ok(NoValue), <<>>)
    /\ writers = [w \in Writers |-> NoWriter]

\* the program starts: Journal::open(jdir).  What an earlier run held in
\* memory is gone, the files are what they were.
Open(jdir) ==
    /\ LET opened == JournalOpen(files, jdir)
       IN  /\ journal' = IF opened.ok THEN opened.val ELSE NoJournal
           /\ result' = Returned("open", jdir, opened, <<>>)
    /\ pushed' = <<>>
    /\ drained' = <<>>
    /\ UNCHANGED <<writers, files, era, faults>>

\* journal.push(transaction); the environment may fail one step of it
Push(transaction, fault, cut) ==
    /\ journal # NoJournal
    /\ journal.next_era_index < MaxIndex
    /\ fault # "none" => faults < MaxFaults
    /\ IF fault = "write_data" THEN cut < Len(raw(transaction)) ELSE cut = 0
    /\ LET p == JournalPush(journal, files, transaction, fault, cut)
       IN  /\ journal' = p.journal
           /\ files' = p.fs
           /\ result' = Returned("push", p.path, p.res, <<>>)
    /\ pushed' = Append(pushed, result'.arg)
    /\ faults' = IF fault = "none" THEN faults ELSE faults + 1
    /\ UNCHANGED <<writers, drained, era>>

\* journal.drain_front(elems); the caller keeps the eras it yields
DrainFront(elems) ==
    /\ journal # NoJournal
    /\ LET d == JournalDrainFront(journal, elems)
       IN  /\ journal' = d.journal
           /\ drained' = drained \o d.yielded
           /\ result' = Returned("drain_front", elems, d.res, d.yielded)
    /\ UNCHANGED <<writers, files, pushed, era, faults>>

\* delete() on the k-th era the caller holds
DeleteDrained(k) ==
    /\ k \in 1..Len(drained)
    /\ LET d == EraDelete(files, drained[k])
       IN  /\ files' = d.fs
           /\ result' = Returned("delete", drained[k].file, d.res, <<>>)
    /\ drained' = SubSeq(drained, 1, k - 1) \o SubSeq(drained, k + 1, Len(drained))
    /\ UNCHANGED <<writers, journal, pushed, era, faults>>

\* journal.get(key)
Get(key) ==
    /\ journal # NoJournal
    /\ result' = Returned("get", key, Ok(NoValue), JournalGet(journal, key))
    /\ UNCHANGED <<writers, files, journal, pushed, drained, era, faults>>

Faults == {"none", "create", "write_hash", "write_data"}

Next ==
    \/ \E d \in {JournalDir, MissingDir} : Open(d)
    \/ \E t \in PushTransactions, f \in Faults, c \in PayloadCuts : Push(t, f, c)
    \/ \E n \in 0..MaxIndex : DrainFront(n)
    \/ \E k \in 1..MaxIndex : DeleteDrained(k)
    \/ \E k \in Keys : Get(k)

Spec == Init /\ [][Next]_vars

\* the same program when it never deletes a drained era
NextPushDrain ==
    \/ \E d \in {JournalDir, MissingDir} : Open(d)
    \/ \E t \in PushTransactions, f \in Faults, c \in PayloadCuts : Push(t, f, c)
    \/ \E n \in 0..MaxIndex : DrainFront(n)
    \/ \E k \in Keys : Get(k)

SpecPushDrain == Init /\ [][NextPushDrain]_vars

\* the indices of the segment files that earlier runs of the program left in
\* the journal directory: one-digit and two-digit ones
ListingIndices == {0, 1, 2, 9, 10}

\* the segment file of the empty transaction, as push writes it
EmptySegment == sha3_256(raw(<<>>)) \o raw(<<>>)

\* the program starts on a directory that holds the segment files of some of
\* the ListingIndices
InitListing ==
    /\ \E S \in SUBSET ListingIndices :
          files = [p \in {next_era_filename(JournalDir, n) : n \in S} |->
                      EmptySegment]
    /\ journal = NoJournal
    /\ pushed = <<>>
    /\ drained = <<>>
    /\ era = NoEra
    /\ faults = 0
    /\ result = Returned("init", <<>>, Ok(NoValue), <<>>)
    /\ writers = [w \in Writers |-> NoWriter]

SpecListing == InitListing /\ [][Next]_vars

-----------------------------------------------------------------------------
(* The calls of a direct user of the segment layer on TestFile, as the     *)
(* tests of the module make them                                           *)

\* JournalEra::create(TestFile, transaction)
CreateEra(transaction) ==
    /\ LET created == EraCreate(files, TestFile, transaction, "none", 0)
       IN  /\ files' = created.fs
           /\ era' = IF created.res.ok THEN created.res.val ELSE era
           /\ result' = Returned("create",
                                 IF created.res.ok THEN transaction ELSE TestFile,
                                 created.res, <<>>)
    /\ UNCHANGED <<writers, journal, pushed, drained, faults>>

\* create with each of the transactions S while TestFile does not exist, and
\* with each of the short ones once it does
CreateEraOf(S) ==
    \E t \in (IF TestFile \in DOMAIN files THEN ShortTransactions ELSE S) :
        CreateEra(t)

\* the era held goes out of scope; its file stays
DropEra ==
    /\ era # NoEra
    /\ era' = NoEra
    /\ result' = Returned("drop", <<>>, Ok(NoValue), <<>>)
    /\ UNCHANGED <<writers, files, journal, pushed, drained, faults>>

\* a write into the intact, unmapped file that makes byte pos of it b
CorruptFile(pos, b) ==
    /\ era = NoEra
    /\ TestFile \in DOMAIN files
    /\ EraOpen(files, TestFile).ok
    /\ pos \in 1..Len(files[TestFile])
    /\ b # files[TestFile][pos]
    /\ files' = [files EXCEPT ![TestFile] = [@ EXCEPT ![pos] = b]]
    /\ result' = Returned("write", <<pos, b>>, Ok(NoValue), files[TestFile])
    /\ UNCHANGED <<writers, journal, pushed, drained, era, faults>>

\* JournalEra::open(TestFile)
OpenEra ==
    /\ era = NoEra
    /\ LET opened == EraOpen(files, TestFile)
       IN  /\ era' = IF opened.ok THEN opened.val ELSE era
           /\ result' = Returned("era_open", TestFile, opened, <<>>)
    /\ UNCHANGED <<writers, files, journal, pushed, drained, faults>>

\* era.get(key)
GetEra(key) ==
    /\ era # NoEra
    /\ result' = Returned("era_get", key, Ok(NoValue), EraGet(era, key))
    /\ UNCHANGED <<writers, files, journal, pushed, drained, era, faults>>

\* era.iter(), collected
IterEra ==
    /\ era # NoEra
    /\ result' = Returned("era_iter", <<>>, Ok(NoValue), EraIter(era))
    /\ UNCHANGED <<writers, files, journal, pushed, drained, era, faults>>

\* era.delete()
DeleteEra ==
    /\ era # NoEra
    /\ LET d == EraDelete(files, era)
       IN  /\ files' = d.fs
           /\ result' = Returned("delete", era.file, d.res, <<>>)
    /\ era' = NoEra
    /\ UNCHANGED <<writers, journal, pushed, drained, faults>>

\* the bytes the corrupting write stores
CorruptBytes == {1, 2}

NextEra ==
    \/ CreateEraOf(CreateTransactions)
    \/ DropEra
    \/ OpenEra
    \/ \E k \in Keys : GetEra(k)
    \/ IterEra
    \/ DeleteEra

SpecEra == Init /\ [][NextEra]_vars

\* the test should_detect_corrupted_era: create, write into the file, open
NextCorrupt ==
    \/ CreateEraOf(CorruptTransactions)
    \/ DropEra
    \/ \E pos \in 1..(CHECKSUM_SIZE + 3 * (MaxCorruptOps + 1)), b \in CorruptBytes :
            CorruptFile(pos, b)
    \/ OpenEra

SpecCorrupt == Init /\ [][NextCorrupt]_vars

-----------------------------------------------------------------------------
(* Two Journal values on JournalDir whose pushes interleave step by step   *)

Others == <<journal, pushed, drained, era, faults, result>>

\* writer w calls Journal::open(JournalDir)
WriterOpen(w) ==
    /\ writers[w].pc = "closed"
    /\ LET opened == JournalOpen(files, JournalDir)
       IN  writers' = [writers EXCEPT
                          ![w].journal = IF opened.ok THEN opened.val ELSE @,
                          ![w].pc = IF opened.ok THEN "idle" ELSE @,
                          ![w].res = IF opened.ok THEN Ok(NoValue) ELSE opened]
    /\ UNCHANGED <<files, Others>>

\* push(tx), lines 240-241: the path of the new file, the index incremented
WriterBegin(w, tx) ==
    /\ writers[w].pc = "idle"
    /\ writers[w].journal.next_era_index < MaxWriterIndex
    /\ writers' = [writers EXCEPT
                      ![w].path = next_era_filename(writers[w].journal.dir,
                                        writers[w].journal.next_era_index),
                      ![w].journal.next_era_index = @ + 1,
                      ![w].tx = tx,
                      ![w].pc = "create"]
    /\ UNCHANGED <<files, Others>>

\* create, lines 88-91: the exclusive creation; its failure ends the push
WriterCreate(w) ==
    /\ writers[w].pc = "create"
    /\ LET c == CreateNew(files, writers[w].path)
       IN  /\ files' = c.fs
           /\ writers' = [writers EXCEPT
                  ![w].pc = IF c.res.ok THEN "write_hash" ELSE "idle",
                  ![w].pos = 0,
                  ![w].res = c.res,
                  ![w].made = IF c.res.ok
                              THEN [p \in DOMAIN @ \cup {writers[w].path} |->
                                       IF p = writers[w].path THEN writers[w].tx
                                       ELSE @[p]]
                              ELSE @]
    /\ UNCHANGED Others

\* create, line 93: file.write_all(&hash)
WriterWriteHash(w) ==
    /\ writers[w].pc = "write_hash"
    /\ LET hash == sha3_256(raw(writers[w].tx))
       IN  /\ files' = WriteAll(files, writers[w].path, writers[w].pos, hash)
           /\ writers' = [writers EXCEPT ![w].pos = @ + Len(hash),
                                         ![w].pc = "write_data"]
    /\ UNCHANGED Others

\* create, line 94: file.write_all(transaction.raw())
WriterWriteData(w) ==
    /\ writers[w].pc = "write_data"
    /\ LET data == raw(writers[w].tx)
       IN  /\ files' = WriteAll(files, writers[w].path, writers[w].pos, data)
           /\ writers' = [writers EXCEPT ![w].pos = @ + Len(data),
                                         ![w].pc = "flush"]
    /\ UNCHANGED Others

\* create, line 95: file.flush()
WriterFlush(w) ==
    /\ writers[w].pc = "flush"
    /\ writers' = [writers EXCEPT ![w].pc = "reopen"]
    /\ UNCHANGED <<files, Others>>

\* a create that returns the era of the bytes it wrote without reopening the
\* file
WriterAppendUnopened(w) ==
    /\ writers[w].pc = "reopen"
    /\ LET data == raw(writers[w].tx)
           e == [file |-> writers[w].path, mmap |-> sha3_256(data) \o data,
                 cache |-> cache_memory(data)]
       IN  writers' = [writers EXCEPT ![w].journal.eras = Append(@, e),
                                      ![w].res = Ok(NoValue),
                                      ![w].pc = "idle"]
    /\ UNCHANGED <<files, Others>>

\* create, line 97, and push, line 244: the file is opened as an era, which
\* is appended when the open succeeded
WriterReopen(w) ==
    /\ writers[w].pc = "reopen"
    /\ LET opened == EraOpen(files, writers[w].path)
       IN  writers' = [writers EXCEPT
                          ![w].journal.eras = IF opened.ok
                                              THEN Append(@, opened.val) ELSE @,
                          ![w].res = IF opened.ok THEN Ok(NoValue) ELSE opened,
                          ![w].pc = "idle"]
    /\ UNCHANGED <<files, Others>>

\* the bytes of the digest that reached the file when its write stopped
HashCuts == {0, 1}

\* the push of writer w stops at the step it is at, after the exclusive
\* creation: when ~crash the step returns an I/O error, which ends the push,
\* when crash the process ends and its Journal value is gone.  cut bytes of
\* what the step was writing reached the file.
WriterStop(w, cut, crash) ==
    /\ writers[w].pc \in {"write_hash", "write_data", "flush"}
    /\ faults < MaxFaults
    /\ LET data == IF writers[w].pc = "write_hash"
                   THEN sha3_256(raw(writers[w].tx))
                   ELSE IF writers[w].pc = "write_data" THEN raw(writers[w].tx)
                   ELSE <<>>
       IN  /\ IF writers[w].pc = "write_hash" THEN cut \in HashCuts
              ELSE cut = 0 \/ cut < Len(data)
           /\ files' = WriteAll(files, writers[w].path, writers[w].pos,
                                SubSeq(data, 1, cut))
    /\ writers' = [writers EXCEPT
                      ![w] = IF crash THEN [NoWriter EXCEPT !.made = writers[w].made]
                             ELSE [@ EXCEPT !.pc = "idle",
                                            !.res = Err(<<"Io", "Other">>)]]
    /\ faults' = faults + 1
    /\ UNCHANGED <<journal, pushed, drained, era, result>>

\* create, line 95, when the storage fails silently: the flush returns Ok
\* and byte i of what writer w has written reaches the storage as b
WriterCorrupt(w, i, b) ==
    /\ writers[w].pc = "flush"
    /\ faults < MaxFaults
    /\ i \in 1..Len(files[writers[w].path])
    /\ b # files[writers[w].path][i]
    /\ files' = [files EXCEPT ![writers[w].path] = [@ EXCEPT ![i] = b]]
    /\ writers' = [writers EXCEPT ![w].pc = "reopen"]
    /\ faults' = faults + 1
    /\ UNCHANGED <<journal, pushed, drained, era, result>>

\* the transactions the writers push
WriterTransactions == PushTransactions

NextWriters ==
    \E w \in Writers :
        \/ WriterOpen(w)
        \/ \E tx \in WriterTransactions : WriterBegin(w, tx)
        \/ WriterCreate(w)
        \/ WriterWriteHash(w)
        \/ WriterWriteData(w)
        \/ WriterFlush(w)
        \/ WriterReopen(w)

SpecWriters == Init /\ [][NextWriters]_vars

\* the places of a file of n bytes at which a byte is corrupted: the first
\* and the last byte of the digest and of the payload (every place of a
\* segment file is corrupted under SpecCorrupt)
CorruptPositions(n) == {1, CHECKSUM_SIZE, CHECKSUM_SIZE + 1, n} \cap 1..n

\* one writer whose pushes the environment stops or corrupts
NextInterrupt ==
    \/ WriterOpen(1)
    \/ \E tx \in WriterTransactions : WriterBegin(1, tx)
    \/ WriterCreate(1)
    \/ WriterWriteHash(1)
    \/ WriterWriteData(1)
    \/ WriterFlush(1)
    \/ WriterReopen(1)
    \/ \E cut \in 0..Len(raw(writers[1].tx)), crash \in BOOLEAN :
            WriterStop(1, cut, crash)
    \/ \E i \in CorruptPositions(CHECKSUM_SIZE + Len(raw(writers[1].tx))),
          b \in CorruptBytes :
            WriterCorrupt(1, i, b)

SpecInterrupt == Init /\ [][NextInterrupt]_vars

-----------------------------------------------------------------------------
(* What the specification says a lookup returns, read off the operations   *)
(* themselves                                                              *)

\* the operations of a held segment, in file order
EraOperations(e) ==
    OperationsIterator(SubSeq(e.mmap, CHECKSUM_SIZE + 1, Len(e.mmap)))

Mentions(operations, key) ==
    \E n \in 1..Len(operations) : operations[n][2] = key

\* the last operation on key among operations, which mention it
LastOperation(operations, key) ==
    LET n == CHOOSE m \in 1..Len(operations) :
                 /\ operations[m][2] = key
                 /\ \A l \in (m + 1)..Len(operations) : operations[l][2] # key
    IN  operations[n]

\* last write wins inside one transaction
ExpectedEraGet(operations, key) ==
    IF ~Mentions(operations, key) THEN <<"None">>
    ELSE LET o == LastOperation(operations, key)
         IN  IF o[1] = "Insert" THEN <<"Some", <<"Insert", o[3]>>>>
             ELSE <<"Some", <<"Delete">>>>

\* most recent write wins across the segments eras, oldest first
ExpectedGet(eras, key) ==
    LET mentioning == {n \in 1..Len(eras) : Mentions(EraOperations(eras[n]), key)}
    IN  IF mentioning = {} THEN <<"None">>
        ELSE LET newest == CHOOSE n \in mentioning : \A m \in mentioning : m <= n
                 o == LastOperation(EraOperations(eras[newest]), key)
             IN  IF o[1] = "Insert" THEN <<"Some", o[3]>> ELSE <<"None">>

-----------------------------------------------------------------------------
(* Claims                                                                  *)

\* C1: Journal.get is most-recent-write-wins across segments.  For every key,
\* the journal's get returns the value of the last operation on the key in
\* the newest held segment that mentions the key when that operation is an
\* insert, and nothing when it is a delete or no held segment mentions the
\* key; this is also what every get call returned.
C1_GetMostRecentWriteWins ==
    /\ journal # NoJournal =>
          \A key \in Keys : JournalGet(journal, key) = ExpectedGet(journal.eras, key)
    /\ result.op = "get" => result.ret = ExpectedGet(journal.eras, result.arg)

\* a get that returned nothing for a key inserted in the oldest of three held
\* segments and deleted in the newest
C1_Witness ==
    /\ result.op = "get"
    /\ result.ret = <<"None">>
    /\ Len(journal.eras) = 3
    /\ EraGet(journal.eras[1], result.arg)[1] = "Some"
    /\ EraGet(journal.eras[1], result.arg)[2][1] = "Insert"
    /\ EraGet(journal.eras[3], result.arg) = <<"Some", <<"Delete">>>>

\* C2: for every transaction written with JournalEra::create, the returned
\* segment's get(key) is Insert(v) for the value v of the last operation on
\* key when that is an insert, Delete when it is a delete, and None when the
\* transaction never mentions key.
C2_EraGetLastWriteWins ==
    (result.op = "create" /\ result.ok) =>
        \A key \in Keys : EraGet(era, key) = ExpectedEraGet(result.arg, key)

\* insert k->v1, insert k->v2, insert k3, delete k3: get(k) = v2 and get(k3)
\* is the tombstone
C2_Witness ==
    /\ result.op = "create"
    /\ result.ok
    /\ result.arg = <<Insert(11, 21), Insert(11, 22), Insert(12, 21), Delete(12)>>
    /\ EraGet(era, 11) = <<"Some", <<"Insert", 22>>>>
    /\ EraGet(era, 12) = <<"Some", <<"Delete">>>>

\* the indices of the segment files of the journal directory
EraIndices == {n \in 0..MaxIndex : next_era_filename(JournalDir, n) \in DOMAIN files}

\* an index without a file between two indices that have one
Missing(m) ==
    /\ m \notin EraIndices
    /\ \E a \in EraIndices : a < m
    /\ \E b \in EraIndices : b > m

FirstMissing == CHOOSE m \in 0..MaxIndex : Missing(m) /\ \A l \in 0..(m - 1) : ~Missing(l)

\* the paths of the segments eras
EraFiles(eras) == {eras[n].file : n \in 1..Len(eras)}

\* C3: reopen round trip.  When every segment the journal holds was pushed on
\* it, every push on it succeeded, nothing was drained and the directory
\* holds these segment files only (k successful pushes on a journal opened on
\* an empty directory), Journal::open on the directory succeeds and holds the
\* same k segments in the same order, so every get answers as before.
C3_ReopenRoundTrip ==
    [][(/\ result'.op = "open"
        /\ result'.arg = JournalDir
        /\ journal # NoJournal
        /\ pushed = [n \in 1..Len(journal.eras) |-> journal.eras[n].file]
        /\ DOMAIN files = EraFiles(journal.eras))
       => (/\ result'.ok
           /\ journal'.eras = journal.eras
           /\ \A key \in Keys : JournalGet(journal', key) = JournalGet(journal, key))]_vars

\* C4: gap detection.  An open of a directory whose segment indices have a
\* gap fails with the missing-segment error, which carries the first missing
\* index.
C4_GapDetection ==
    (/\ result.op = "open"
     /\ result.arg = JournalDir
     /\ \E m \in 0..MaxIndex : Missing(m))
    => (/\ ~result.ok
        /\ result.err[1] = "JournalEraMissing"
        /\ result.err[2] = FirstMissing)

\* the digest stored in the file at path, and the digest of what follows it
StoredDigest(fs, path) == SubSeq(fs[path], 1, CHECKSUM_SIZE)
PayloadDigest(fs, path) ==
    sha3_256(SubSeq(fs[path], CHECKSUM_SIZE + 1, Len(fs[path])))

\* C5: corruption detection.  JournalEra::open returns a segment only when
\* the stored digest equals the hash of the bytes after it; an open of a file
\* produced by create in which one byte, of the digest or of the payload, was
\* changed since fails with the corrupted-journal error carrying the path,
\* the recomputed digest and the stored digest, and returns no segment.
C5_CorruptionDetected ==
    [][result'.op = "era_open" =>
        /\ result'.ok =>
              /\ Len(files'[TestFile]) >= CHECKSUM_SIZE
              /\ StoredDigest(files', TestFile) = PayloadDigest(files', TestFile)
        /\ result.op = "write" =>
              /\ ~result'.ok
              /\ result'.err = <<"CorruptedJournal", TestFile,
                                 PayloadDigest(files', TestFile),
                                 StoredDigest(files', TestFile)>>
              /\ era' = NoEra]_vars

\* an open that failed with the corrupted-journal error on a file whose
\* digest is the one create stored and whose payload has a changed byte
C5_Witness ==
    /\ result.op = "era_open"
    /\ ~result.ok
    /\ result.err[1] = "CorruptedJournal"
    /\ \E t \in CorruptTransactions :
          /\ StoredDigest(files, TestFile) = sha3_256(raw(t))
          /\ Len(files[TestFile]) = CHECKSUM_SIZE + Len(raw(t))
          /\ SubSeq(files[TestFile], CHECKSUM_SIZE + 1, Len(files[TestFile])) # raw(t)

\* C6: drain_front(n) with n <= len() yields exactly the n oldest held
\* segments, oldest first; afterwards len() has dropped by n, the remaining
\* segments are the newest ones in unchanged order, a key mentioned only in
\* drained segments is no longer found, and get resolves as most recent
\* write wins over the remaining segments alone.
C6_DrainFront ==
    [][(result'.op = "drain_front" /\ result'.arg <= JournalLen(journal)) =>
        LET n == result'.arg
            before == journal.eras
            after == journal'.eras
        IN  /\ result'.ok
            /\ result'.ret = SubSeq(before, 1, n)
            /\ JournalLen(journal') = JournalLen(journal) - n
            /\ after = SubSeq(before, n + 1, Len(before))
            /\ \A key \in Keys :
                  /\ (\A m \in 1..Len(after) : ~Mentions(EraOperations(after[m]), key))
                        => JournalGet(journal', key) = <<"None">>
                  /\ JournalGet(journal', key) = ExpectedGet(after, key)]_vars

\* three segments pushed, drain_front(2): one segment is left, and a key that
\* the drained segments insert and the remaining one does not mention is not
\* found any more
C6_Witness ==
    /\ result.op = "drain_front"
    /\ result.arg = 2
    /\ Len(result.ret) = 2
    /\ JournalLen(journal) = 1
    /\ \E key \in Keys :
          /\ ExpectedGet(result.ret, key)[1] = "Some"
          /\ ~Mentions(EraOperations(journal.eras[1]), key)
          /\ JournalGet(journal, key) = <<"None">>

\* the index in the name of a segment file
IndexOf(path) == CHOOSE n \in 0..MaxIndex : next_era_filename(JournalDir, n) = path

\* C7: index allocation by push is strictly increasing within one Journal
\* value: each push targets a file index strictly greater than the index of
\* every earlier push on that value, also after drain_front removed segments.
C7_PushIndexIncreases ==
    \A a, b \in 1..Len(pushed) : a < b => IndexOf(pushed[a]) < IndexOf(pushed[b])

\* push two, drain_front(2), push again: the third push targets index 2
C7_Witness ==
    /\ result.op = "push"
    /\ result.ok
    /\ Len(pushed) = 3
    /\ IndexOf(pushed[3]) = 2
    /\ JournalLen(journal) = 1
    /\ Len(drained) = 2

\* C8: next-index invariant.  Whenever a Journal is held after open, pushes
\* (successful or failed) and drain_front calls, its next index to allocate
\* is one more than the highest index among the segment files of the
\* directory, and 0 when the directory holds no segment file.
C8_NextIndexInvariant ==
    journal # NoJournal =>
        journal.next_era_index =
            IF EraIndices = {} THEN 0
            ELSE 1 + (CHOOSE n \in EraIndices : \A m \in EraIndices : m <= n)

\* C9: exclusive creation.  JournalEra::create on a path at which a file
\* exists fails, returns no segment and leaves the file system as it was; and
\* no call of the segment layer changes the content of a file that exists
\* before and after it.
C9_ExclusiveCreate ==
    [][/\ (result'.op = "create" /\ TestFile \in DOMAIN files) =>
              /\ ~result'.ok
              /\ result'.err = <<"Io", "AlreadyExists">>
              /\ files' = files
              /\ era' = era
       /\ \A p \in DOMAIN files \cap DOMAIN files' : files'[p] = files[p]]_vars

\* a create that failed on the path of an intact segment file
C9_Witness ==
    /\ result.op = "create"
    /\ ~result.ok
    /\ result.err = <<"Io", "AlreadyExists">>
    /\ TestFile \in DOMAIN files
    /\ EraOpen(files, TestFile).ok

\* C10: drain_front changes no file, a file is removed only by
\* JournalEra::delete, and when the program stops right after a drain_front,
\* none of the segment files deleted, Journal::open on the directory holds
\* all the segments again, the drained ones first, and every key resolves as
\* before the drain.
C10_DrainLeavesFiles ==
    [][/\ result'.op = "drain_front" => files' = files
       /\ (\E p \in DOMAIN files : p \notin DOMAIN files') => result'.op = "delete"
       /\ (/\ result.op = "drain_front"
           /\ result.ok
           /\ result.arg >= 1
           /\ drained = result.ret
           /\ DOMAIN files = EraFiles(drained \o journal.eras)
           /\ result'.op = "open"
           /\ result'.arg = JournalDir)
          => (/\ result'.ok
              /\ journal'.eras = drained \o journal.eras
              /\ \A key \in Keys :
                    JournalGet(journal', key) = ExpectedGet(drained \o journal.eras, key))
      ]_vars

\* the keys that operations mention, in ascending order
RECURSIVE KeysAscending(_)
KeysAscending(S) ==
    IF S = {} THEN <<>>
    ELSE LET least == CHOOSE k \in S : \A o \in S : k <= o
         IN  <<least>> \o KeysAscending(S \ {least})

MentionedKeys(operations) == {k \in Keys : Mentions(operations, k)}

\* C11: every iter() call on a segment yields one operation per distinct key
\* of the payload, in ascending key order, each the last operation on its key
\* in file order, so that it agrees with the segment's get(key) for every
\* key; the call leaves the segment as it is, and a second call right after
\* yields the same sequence.
C11_IterCanonical ==
    [][result'.op = "era_iter" =>
        LET operations == EraOperations(era)
            keys == KeysAscending(MentionedKeys(operations))
            yielded == result'.ret
        IN  /\ Len(yielded) = Len(keys)
            /\ \A n \in 1..Len(keys) :
                  /\ yielded[n][2] = keys[n]
                  /\ yielded[n] = LastOperation(operations, keys[n])
            /\ \A key \in Keys :
                  EraGet(era, key) =
                      IF \E n \in 1..Len(yielded) : yielded[n][2] = key
                      THEN LET o == yielded[CHOOSE n \in 1..Len(yielded) :
                                               yielded[n][2] = key]
                           IN  IF o[1] = "Insert"
                               THEN <<"Some", JournalOperationInsert(o[3])>>
                               ELSE <<"Some", JournalOperationDelete>>
                      ELSE <<"None">>
            /\ era' = era
            /\ result.op = "era_iter" => result'.ret = result.ret]_vars

\* iter() on the segment of insert 12, insert 11, delete 12: the operation on
\* 11 comes first although it is second in the file, and 12 yields its delete
C11_Witness ==
    /\ result.op = "era_iter"
    /\ EraOperations(era) = <<Insert(12, 21), Insert(11, 21), Delete(12)>>
    /\ result.ret = <<Insert(11, 21), Delete(12)>>

\* the lowest index whose segment file JournalEra::open refuses
FirstRefused(fs) ==
    CHOOSE n \in EraIndices :
        /\ ~EraOpen(fs, next_era_filename(JournalDir, n)).ok
        /\ \A l \in EraIndices :
              l < n => EraOpen(fs, next_era_filename(JournalDir, l)).ok

\* C12: Journal::open is all-or-nothing.  It fails with the
\* invalid-journal-location error on a path that is no directory; on a
\* directory whose listing has a gap it fails with the missing-segment error;
\* on a gap-free directory in which the first segment file that cannot be
\* opened fails its checksum it fails with the corrupted-journal error of
\* that file; a failed open returns no Journal and changes no file, and a
\* successful one holds every segment file of the directory.
C12_OpenAllOrNothing ==
    [][result'.op = "open" =>
        LET gap == \E m \in 0..MaxIndex : Missing(m)
            refused == \E n \in EraIndices :
                          ~EraOpen(files, next_era_filename(JournalDir, n)).ok
        IN  /\ ~IsDir(result'.arg) =>
                  /\ ~result'.ok
                  /\ result'.err = <<"InvalidJournalLocation", result'.arg>>
            /\ (IsDir(result'.arg) /\ gap) =>
                  /\ ~result'.ok
                  /\ result'.err[1] = "JournalEraMissing"
            /\ (IsDir(result'.arg) /\ ~gap /\ refused) =>
                  LET first == EraOpen(files, next_era_filename(JournalDir,
                                                                FirstRefused(files)))
                  IN  first.err[1] = "CorruptedJournal" =>
                          (~result'.ok /\ result'.err = first.err)
            /\ ~result'.ok => (journal' = NoJournal /\ files' = files)
            /\ result'.ok =>
                  /\ EraFiles(journal'.eras) =
                         {next_era_filename(JournalDir, n) : n \in EraIndices}
                  /\ files' = files]_vars

\* C13: push preserves the contiguity of the directory.  When segment files
\* are created by pushes only and none is deleted, whichever pushes fail, the
\* indices of the segment files form a contiguous run with no missing index
\* in every reachable state, and no Journal::open fails with the
\* missing-segment error.
C13_PushKeepsContiguity ==
    /\ \A m \in 0..MaxIndex : ~Missing(m)
    /\ (result.op = "open" /\ ~result.ok) => result.err[1] # "JournalEraMissing"

\* C14: reopen after compaction.  When no push has failed, the oldest m >= 1
\* segments have been drained and deleted and the directory holds exactly the files of the
\* segments still held (by the caller after a drain, or by the journal), with
\* indices m, m+1, ... in a contiguous run, Journal::open on the directory
\* succeeds, holds these segments in increasing index order, and its next
\* index is one past the highest remaining index.
C14_ReopenAfterCompaction ==
    [][(/\ result'.op = "open"
        /\ result'.arg = JournalDir
        /\ journal # NoJournal
        /\ faults = 0
        /\ EraIndices # {}
        /\ 0 \notin EraIndices
        /\ \A m \in 0..MaxIndex : ~Missing(m)
        /\ LET held == drained \o journal.eras
           IN  /\ DOMAIN files = EraFiles(held)
               /\ \A a, b \in 1..Len(held) :
                     a < b => IndexOf(held[a].file) < IndexOf(held[b].file))
       => (/\ result'.ok
           /\ journal'.eras = drained \o journal.eras
           /\ journal'.next_era_index =
                 1 + (CHOOSE n \in EraIndices : \A l \in EraIndices : l <= n))]_vars

\* the writers whose pushes created the file at path
Creators(ws, path) == {w \in Writers : path \in DOMAIN ws[w].made}

IsPrefix(a, b) == Len(a) <= Len(b) /\ SubSeq(b, 1, Len(a)) = a

\* C15: two writers on one directory.  However the steps of the pushes of
\* two Journal values on the directory interleave, every segment file was
\* created by exactly one push; every step that creates a file or changes
\* one leaves in it nothing but the digest and the payload of the creating
\* push's transaction, as far as they are written; every segment a push
\* appends is the complete digest and payload of its transaction and is what
\* the file holds; only the push that created a file writes into it, and only
\* by appending; and the push whose exclusive creation finds the path taken
\* fails with the already-exists error, appends no segment and changes no
\* file.
C15_TwoWriters ==
    [][/\ \A p \in DOMAIN files' :
             /\ Cardinality(Creators(writers', p)) = 1
             /\ (p \notin DOMAIN files \/ files'[p] # files[p]) =>
                   LET tx == writers'[CHOOSE w \in Creators(writers', p) : TRUE].made[p]
                       hash == sha3_256(raw(tx))
                   IN  \/ files'[p] = <<>>
                       \/ files'[p] = hash
                       \/ files'[p] = hash \o raw(tx)
       /\ \A w \in Writers :
             writers'[w].journal.eras # writers[w].journal.eras =>
                 LET e == writers'[w].journal.eras[Len(writers'[w].journal.eras)]
                 IN  /\ writers[w].pc = "reopen"
                     /\ writers'[w].journal.eras = Append(writers[w].journal.eras, e)
                     /\ e.file = writers[w].path
                     /\ e.file \in DOMAIN writers'[w].made
                     /\ files'[e.file] = e.mmap
                     /\ e.mmap = sha3_256(raw(writers[w].tx)) \o raw(writers[w].tx)
                     /\ writers'[w].made[e.file] = writers[w].tx
       /\ \A p \in DOMAIN files :
             /\ p \in DOMAIN files'
             /\ IsPrefix(files[p], files'[p])
             /\ files'[p] # files[p] =>
                   \E w \in Creators(writers, p) :
                       writers[w].path = p /\ writers'[w] # writers[w]
       /\ \A w \in Writers :
             (/\ writers[w].pc = "create"
              /\ writers'[w] # writers[w]
              /\ writers[w].path \in DOMAIN files)
             => (/\ ~writers'[w].res.ok
                 /\ writers'[w].res.err = <<"Io", "AlreadyExists">>
                 /\ writers'[w].pc = "idle"
                 /\ writers'[w].journal.eras = writers[w].journal.eras
                 /\ writers'[w].made = writers[w].made
                 /\ files' = files)]_vars

\* writer 2's push has failed on the file that writer 1's push created and
\* has written the digest of its own, different transaction to, and that
\* file is as writer 1 left it
C15_Witness ==
    /\ writers[1].pc = "write_data"
    /\ writers[2].pc = "idle"
    /\ writers[2].res.err = <<"Io", "AlreadyExists">>
    /\ writers[2].path = writers[1].path
    /\ writers[2].tx # writers[1].tx
    /\ writers[1].tx # <<>>
    /\ files[writers[1].path] = sha3_256(raw(writers[1].tx))

\* the digest and payload that the push which created the file at path set
\* out to write
Intended(ws, path) ==
    LET tx == ws[CHOOSE w \in Creators(ws, path) : TRUE].made[path]
    IN  sha3_256(raw(tx)) \o raw(tx)

\* C16: segments are all-or-nothing.  Whenever a file that a push created
\* does not hold the complete digest and payload of the push's transaction
\* (the push stopped before the digest, inside it, after it or part-way
\* through the payload, or a byte was corrupted on the way to storage),
\* JournalEra::open of the file returns no segment and Journal::open of the
\* directory returns no Journal holding a segment of it; a push appends a
\* segment only in the step that reopened a complete file, a push that ends
\* with an error appends none, and every segment a Journal holds has the
\* complete serialized transaction it was created from as its payload.
C16_AllOrNothing ==
    [][/\ \A p \in DOMAIN files' :
             files'[p] # Intended(writers', p) =>
                 /\ ~EraOpen(files', p).ok
                 /\ LET opened == JournalOpen(files', JournalDir)
                    IN  opened.ok => p \notin EraFiles(opened.val.eras)
       /\ \A w \in Writers :
             /\ writers'[w].journal.eras # writers[w].journal.eras =>
                   \/ writers'[w].journal = NoJournal
                   \/ /\ writers[w].pc = "reopen"
                      /\ writers'[w].res.ok
                      /\ files'[writers[w].path] = Intended(writers', writers[w].path)
                      /\ Len(writers'[w].journal.eras) =
                            Len(writers[w].journal.eras) + 1
             /\ (writers[w].pc \notin {"idle", "closed"} /\ writers'[w].pc = "idle"
                    /\ ~writers'[w].res.ok) =>
                   writers'[w].journal.eras = writers[w].journal.eras
             /\ \A n \in 1..Len(writers'[w].journal.eras) :
                   LET e == writers'[w].journal.eras[n]
                   IN  SubSeq(e.mmap, CHECKSUM_SIZE + 1, Len(e.mmap)) =
                           raw(writers'[w].made[e.file])]_vars

\* a push of insert 11 -> 21 has returned an I/O error after one byte of the
\* payload reached the file: the Journal holds no segment and the file fails
\* its checksum
C16_Witness ==
    /\ writers[1].pc = "idle"
    /\ writers[1].res = Err(<<"Io", "Other">>)
    /\ writers[1].tx = <<Insert(11, 21)>>
    /\ writers[1].journal.eras = <<>>
    /\ writers[1].path \in DOMAIN files
    /\ files[writers[1].path] = sha3_256(raw(writers[1].tx)) \o <<INSERT_TAG>>
    /\ EraOpen(files, writers[1].path).err[1] = "CorruptedJournal"

\* the index in the name of a segment file of the journal directory
SegmentIndex(path) ==
    CHOOSE n \in (0..MaxIndex) \cup ListingIndices :
        next_era_filename(JournalDir, n) = path

\* the segment files of the journal directory in the order of era_files'
\* sort, as path text
ListedAsText(fs) ==
    SortPaths({q \in ReadDir(fs, JournalDir) :
                  EndsWith(FileName(JournalDir, q), ERA_EXTENSION)})

\* the text order of the listing is not the numeric order of the indices
TextOrderDiffers(fs) ==
    \E a, b \in 1..Len(ListedAsText(fs)) :
        a < b /\ SegmentIndex(ListedAsText(fs)[a]) > SegmentIndex(ListedAsText(fs)[b])

\* C17: every Journal holds its segments in strictly increasing index order
\* in every reachable state, after open, push and drain_front; and an open
\* of a directory whose listing sorted as path text is not in numeric order
\* is rejected by the gap check, with the missing-segment error.
C17_ErasInIndexOrder ==
    /\ journal # NoJournal =>
          \A a, b \in 1..Len(journal.eras) :
              a < b => SegmentIndex(journal.eras[a].file)
                          < SegmentIndex(journal.eras[b].file)
    /\ (result.op = "open" /\ result.arg = JournalDir /\ TextOrderDiffers(files)) =>
          (~result.ok /\ result.err[1] = "JournalEraMissing")

\* C18: a failed push leaves the in-memory collection unchanged.  When push
\* returns an error, the segments held, len() and the result of get(key) for
\* every key are what they were before the call.
C18_FailedPushFrame ==
    [][(result'.op = "push" /\ ~result'.ok) =>
        /\ journal'.eras = journal.eras
        /\ JournalLen(journal') = JournalLen(journal)
        /\ \A key \in Keys : JournalGet(journal', key) = JournalGet(journal, key)]_vars

\* a push of a delete of key 11 has failed on a journal that holds a segment
\* in which 11 is inserted: get(11) still finds the value
C18_Witness ==
    /\ result.op = "push"
    /\ ~result.ok
    /\ JournalLen(journal) = 1
    /\ JournalGet(journal, 11) = <<"Some", 21>>
    /\ result.arg \in DOMAIN files
    /\ files[result.arg] = sha3_256(raw(<<Delete(11)>>))

\* C19: drain_front(n) with n > len() does not drain in part.  The call
\* aborts and returns no segment; the segments held and len() are what they
\* were, and no file has changed.
C19_DrainBeyondLen ==
    [][(result'.op = "drain_front" /\ result'.arg > JournalLen(journal)) =>
        /\ ~result'.ok
        /\ result'.err = <<"Panic">>
        /\ result'.ret = <<>>
        /\ journal'.eras = journal.eras
        /\ JournalLen(journal') = JournalLen(journal)
        /\ drained' = drained
        /\ files' = files]_vars

\* drain_front(2) on a journal of one segment has aborted: the journal still
\* holds the segment and the caller holds none
C19_Witness ==
    /\ result.op = "drain_front"
    /\ result.arg = 2
    /\ ~result.ok
    /\ JournalLen(journal) = 1
    /\ drained = <<>>

====
